---- MODULE Spec2Model ----
(***************************************************************************)
(* Model of the reconciliation engine of ARC-v2: engine/matcher.py         *)
(* (prepare_dataframe, make_match_key, classify_match_reason,              *)
(* generate_match_reason, apply_matching) and engine/fuzzy.py (mark_fuzzy).*)
(*                                                                         *)
(* Conventions                                                             *)
(*  - A table (DataFrame) is a sequence of rows (records); position i of   *)
(*    the sequence is the pandas index label i-1.                          *)
(*  - Text is a sequence of one-character strings.                         *)
(*  - Money is counted in pence: the amount 4.99 is the integer 499, so    *)
(*    amount_gbp (amount * rate) is kept in 1/100 pence and amount_cent =  *)
(*    round(amount_gbp * 100) rounds it to whole pence.                    *)
(*  - A raw amount cell is <<v>> (a number) or <<>> (text that             *)
(*    pd.to_numeric coerces to NaN).                                       *)
(*  - A raw date cell is a day of January 2024 (1..31) or 0 (text that     *)
(*    pd.to_datetime coerces to NaT).                                      *)
(*  - A file as a front-end loads it is [columns, rows]: the header names  *)
(*    in order, and each row a function from header name to cell.          *)
(*  - frontend is "engine" when apply_matching is called directly, and     *)
(*    "cli", "api" or "ui" when a front-end runs; files are the three      *)
(*    loaded files (bank, ledger, gateway), resolved the column names each *)
(*    file has after normalise_dataframe renamed them, handed the three    *)
(*    tables the front-end passed to apply_matching.                       *)
(***************************************************************************)
EXTENDS Integers, Sequences, FiniteSets, TLC

VARIABLES bank_df, ledger_df, gateway_df, pc, master, rec, fuzzy, unmatched,
          frontend, files, resolved, handed

vars == <<bank_df, ledger_df, gateway_df, pc, master, rec, fuzzy, unmatched,
          frontend, files, resolved, handed>>

(***************************************************************************)
(* Bounds of the model                                                     *)
(***************************************************************************)
\* total number of rows over the three feeds
MaxRows == 3

(***************************************************************************)
(* Program constants                                                       *)
(***************************************************************************)
KNOWN_GATEWAYS ==
    { <<"s","t","r","i","p","e">>, <<"p","a","y","p","a","l">>, <<"s","q","u","a","r","e">> }

SMALL_FEE_THRESHOLD_PENCE == 500

DATE_TOLERANCE_DAYS == 2

FUZZY_THRESHOLD == 92

\* pandas' missing date
NaT == 0

\* Python's None / pandas' NaN in a text column
None == "None"

AllSources == {"bank", "ledger", "gateway"}

(***************************************************************************)
(* Text helpers                                                            *)
(***************************************************************************)
UpperChars ==
    <<"A","B","C","D","E","F","G","H","I","J","K","L","M",
      "N","O","P","Q","R","S","T","U","V","W","X","Y","Z">>

LowerChars ==
    <<"a","b","c","d","e","f","g","h","i","j","k","l","m",
      "n","o","p","q","r","s","t","u","v","w","x","y","z">>

DigitChars == <<"0","1","2","3","4","5","6","7","8","9">>

UpperSet == {UpperChars[k] : k \in 1..26}

AlnumSet == UpperSet \cup {LowerChars[k] : k \in 1..26} \cup {DigitChars[k] : k \in 1..10}

\* str.lower() on one character
Lower(ch) ==
    IF ch \in UpperSet
    THEN LowerChars[CHOOSE k \in 1..26 : UpperChars[k] = ch]
    ELSE ch

\* str.isalnum() on one character
IsAlnum(ch) == ch \in AlnumSet

\* sub in s (Python's substring test)
Contains(s, sub) ==
    \E k \in 0..(Len(s) - Len(sub)) : SubSeq(s, k + 1, k + Len(sub)) = sub

RECURSIVE NatStr(_)
NatStr(n) ==
    IF n < 10 THEN <<DigitChars[n + 1]>>
    ELSE NatStr(n \div 10) \o <<DigitChars[(n % 10) + 1]>>

\* str(n) of an integer
IntStr(n) == IF n < 0 THEN <<"-">> \o NatStr(0 - n) ELSE NatStr(n)

\* str(d) of a datetime.date (a day of January 2024) or of NaT
DateStr(d) ==
    IF d = NaT THEN <<"N","a","T">>
    ELSE <<"2","0","2","4","-","0","1","-">> \o
         (IF d < 10 THEN <<"0">> \o NatStr(d) ELSE NatStr(d))

Abs(x) == IF x < 0 THEN 0 - x ELSE x

RECURSIVE SumSeq(_)
SumSeq(s) == IF s = <<>> THEN 0 ELSE Head(s) + SumSeq(Tail(s))

\* round(n / d) to the nearest integer, ties to the even one (numpy's round)
RoundHalfEven(n, d) ==
    LET q == n \div d
        r == n % d
    IN  IF 2 * r < d THEN q
        ELSE IF 2 * r > d THEN q + 1
        ELSE IF q % 2 = 0 THEN q ELSE q + 1

(***************************************************************************)
(* matcher.py: normalisation                                               *)
(***************************************************************************)
\* FX_RATES.get(currency, 1.0), in percent
FX_RATES(currency) ==
    IF currency = "USD" THEN 79
    ELSE IF currency = "EUR" THEN 86
    ELSE 100

normalise_reference(x) ==
    LET s == [k \in 1..Len(x) |-> Lower(x[k])]
    IN  SelectSeq(s, IsAlnum)

\* pd.to_datetime(errors="coerce").dt.date on one cell
to_datetime(x) == IF x >= 1 THEN x ELSE NaT

\* pd.to_numeric(errors="coerce").fillna(0.0) on one cell
to_numeric(x) == IF x = <<>> THEN 0 ELSE x[1]

\* df["amount"].mean() < 0 (the mean of no rows is NaN, which is not < 0)
MeanNegative(amounts) == Len(amounts) > 0 /\ SumSeq(amounts) < 0

\* a table given row by row, as a sequence
Table(rows) == <<>> \o rows

\* the row r with column f set to v (added when r has no such column)
SetCol(r, f, v) == (f :> v) @@ r

\* one row of prepare_dataframe; debit is the outcome of the mean test and
\* num the row's amount after to_numeric
PreparedRow(r, num, debit) ==
    [ index       |-> r.index,
      source      |-> r.source,
      date        |-> to_datetime(r.date),
      amount      |-> IF debit THEN Abs(num) ELSE num,
      polarity    |-> IF debit THEN "debit" ELSE "credit",
      currency    |-> r.currency,
      amount_gbp  |-> (IF debit THEN Abs(num) ELSE num) * FX_RATES(r.currency),
      amount_cent |-> RoundHalfEven((IF debit THEN Abs(num) ELSE num)
                                      * FX_RATES(r.currency), 100),
      reference   |-> r.reference,
      ref_norm    |-> normalise_reference(r.reference) ]

PreparedRows(df, amounts, debit) ==
    Table([i \in 1..Len(df) |-> PreparedRow(df[i], amounts[i], debit)])

Amounts(df) == Table([i \in 1..Len(df) |-> to_numeric(df[i].amount)])

prepare_dataframe(df) ==
    PreparedRows(df, Amounts(df), MeanNegative(Amounts(df)))

\* mutant: the source of the row made part of its key
MatchKeyWithSource(r) ==
    IntStr(r.amount_cent) \o <<"_">> \o r.ref_norm \o <<"_">> \o DateStr(r.date)
        \o <<"_", r.source>>

MatchKeyOf(r) ==
    IntStr(r.amount_cent) \o <<"_">> \o r.ref_norm \o <<"_">> \o DateStr(r.date)

make_match_key(df) ==
    Table([i \in 1..Len(df) |-> SetCol(df[i], "match_key", MatchKeyOf(df[i]))])

(***************************************************************************)
(* fuzzy.py                                                                *)
(***************************************************************************)
\* the largest member of a non-empty set of numbers
SetMax(S) == CHOOSE x \in S : \A y \in S : y <= x

\* one row of the longest-common-subsequence table: from the row of the
\* prefix a[1..i-1] (prev, over the prefixes of b) to the row of a[1..i],
\* whose last character is ch. A common subsequence of a[1..i] and b[1..j]
\* either leaves ch out or pairs it with an equal b[k], k <= j.
LcsRow(prev, ch, b) ==
    Table([j \in 1..Len(b) |->
             SetMax({prev[j]} \cup
                    {(IF k = 1 THEN 0 ELSE prev[k - 1]) + 1 :
                        k \in {n \in 1..j : b[n] = ch}})])

RECURSIVE LcsTable(_, _, _, _)
LcsTable(a, b, i, prev) ==
    IF i > Len(a) THEN prev
    ELSE LcsTable(a, b, i + 1, LcsRow(prev, a[i], b))

\* length of the longest common subsequence of a and b
LcsLen(a, b) ==
    IF Len(b) = 0 THEN 0
    ELSE LcsTable(a, b, 1, Table([j \in 1..Len(b) |-> 0]))[Len(b)]

\* fuzz.ratio(s1, s2) >= threshold: the ratio is the normalised Indel
\* similarity 100 * 2*lcs / (len1 + len2), and 100 for two empty strings
FuzzRatioAtLeast(s1, s2, threshold) ==
    IF Len(s1) + Len(s2) = 0 THEN 100 >= threshold
    ELSE 200 * LcsLen(s1, s2) >= threshold * (Len(s1) + Len(s2))

\* fuzzy_group of a row not assigned yet (Python's None)
NoGroup == -1

\* mutant: a row that already has a group is compared and taken again
FuzzyStepReassign(groups, refs, i) ==
    IF groups[i] # NoGroup THEN groups
    ELSE Table([j \in 1..Len(groups) |->
            IF j = i THEN i - 1
            ELSE IF j > i /\ FuzzRatioAtLeast(refs[i], refs[j], FUZZY_THRESHOLD)
                 THEN i - 1
                 ELSE groups[j]])

\* mutant: a row is compared with the row before it, not with the root
FuzzyStepPrevious(groups, refs, i) ==
    IF groups[i] # NoGroup THEN groups
    ELSE Table([j \in 1..Len(groups) |->
            IF j = i THEN i - 1
            ELSE IF j > i /\ groups[j] = NoGroup
                    /\ FuzzRatioAtLeast(refs[j - 1], refs[j], FUZZY_THRESHOLD)
                 THEN i - 1
                 ELSE groups[j]])

\* the loop body of mark_fuzzy for root position i (index label i - 1)
FuzzyStep(groups, refs, i) ==
    IF groups[i] # NoGroup THEN groups
    ELSE Table([j \in 1..Len(groups) |->
            IF j = i THEN i - 1
            ELSE IF j > i /\ groups[j] = NoGroup
                    /\ FuzzRatioAtLeast(refs[i], refs[j], FUZZY_THRESHOLD)
                 THEN i - 1
                 ELSE groups[j]])

RECURSIVE FuzzyLoop(_, _, _)
FuzzyLoop(groups, refs, i) ==
    IF i > Len(groups) THEN groups
    ELSE FuzzyLoop(FuzzyStep(groups, refs, i), refs, i + 1)

\* a match_key that is NaN (pd.isna): no string key is empty
NaNKey == <<>>

\* lines 35-40 on one row
MergedKey(r) ==
    IF r.match_key = NaNKey
    THEN IntStr(r.fuzzy_group) \o <<"_">> \o IntStr(r.amount_pence)
    ELSE r.match_key

\* the fuzzy_group column that the loop of lines 19-32 leaves
FuzzyGroups(df) ==
    FuzzyLoop(Table([i \in 1..Len(df) |-> NoGroup]),
              Table([i \in 1..Len(df) |-> df[i].ref_norm]), 1)

FuzzyRow(r, group) ==
    SetCol(SetCol(SetCol(r, "amount_pence", r.amount_cent),
                  "fuzzy_group", group),
           "match_key",
           MergedKey(SetCol(SetCol(r, "amount_pence", r.amount_cent),
                            "fuzzy_group", group)))

FuzzyRows(df, groups) ==
    Table([i \in 1..Len(df) |-> FuzzyRow(df[i], groups[i])])

mark_fuzzy(df) == FuzzyRows(df, FuzzyGroups(df))

(***************************************************************************)
(* matcher.py: status                                                      *)
(***************************************************************************)
\* the rows of df whose column f equals v, as a set of positions
RowsWith(df, f, v) == {i \in 1..Len(df) : df[i][f] = v}

\* master.groupby("match_key")["source"].apply(set), for one key
SourcesOfKey(df, key) == {df[i].source : i \in RowsWith(df, "match_key", key)}

\* mutant: a key is reconciled as soon as two sources share it
reconciled_keys_two_sources(df) ==
    {df[i].match_key : i \in {k \in 1..Len(df) :
                                 Cardinality(SourcesOfKey(df, df[k].match_key)) >= 2}}

reconciled_keys(df) ==
    {df[i].match_key : i \in {k \in 1..Len(df) :
                                 SourcesOfKey(df, df[k].match_key) = AllSources}}

\* mutant: of a reconciled key only the bank rows are marked
StatusRowsBankOnly(df, keys) ==
    Table([i \in 1..Len(df) |->
             SetCol(df[i], "final_status",
                    IF df[i].match_key \in keys /\ df[i].source = "bank"
                    THEN "Matched" ELSE "Unmatched")])

\* lines 147-148
StatusRows(df, keys) ==
    Table([i \in 1..Len(df) |->
             SetCol(df[i], "final_status",
                    IF df[i].match_key \in keys THEN "Matched" ELSE "Unmatched")])

InitialStatus(df) == StatusRows(df, reconciled_keys(df))

\* mutant: the rows that share their cluster with another row are marked
FuzzyStatusClustered(df) ==
    Table([i \in 1..Len(df) |->
             SetCol(df[i], "fuzzy_status",
                    IF df[i].final_status = "Matched" THEN "NotFuzzy"
                    ELSE IF \E j \in 1..Len(df) :
                               j # i /\ df[j].fuzzy_group = df[i].fuzzy_group
                    THEN "FuzzyMatched"
                    ELSE None)])

\* line 151: fuzzy_status is NotFuzzy on Matched rows and NaN elsewhere
FuzzyStatus(df) ==
    Table([i \in 1..Len(df) |->
             SetCol(df[i], "fuzzy_status",
                    IF df[i].final_status = "Matched" THEN "NotFuzzy" ELSE None)])

\* lines 153-158
FinalStatusOf(r) ==
    IF r.final_status = "Matched" THEN "Matched"
    ELSE IF r.fuzzy_status = "FuzzyMatched" THEN "FuzzyMatched"
    ELSE "Unmatched"

FinalStatus(df) ==
    Table([i \in 1..Len(df) |-> SetCol(df[i], "final_status", FinalStatusOf(df[i]))])

(***************************************************************************)
(* matcher.py: classification                                              *)
(***************************************************************************)
\* variance_amount is None (<<>>) or a number <<v>>, in pence
NoVariance == <<>>

\* same_amount (lines 81-84), as positions of master_df
SameAmount(row, master_df) ==
    {i \in 1..Len(master_df) :
        /\ master_df[i].amount_cent = row.amount_cent
        /\ master_df[i].source # row.source}

\* line 89 on one date d of same_amount. NaT is truthy, so the guard
\* "if d and row['date']" lets every pair through: date - date gives a day
\* count, NaT - NaT gives NaT whose .days is NaN (dropped by dropna), and a
\* date with NaT has no subtraction (TypeError).
DateDiffRaises(d, rowdate) == (d = NaT) # (rowdate = NaT)

\* date_diffs after dropna(), as a set of day counts
DateDiffs(row, master_df) ==
    {Abs(master_df[i].date - row.date) :
        i \in {k \in SameAmount(row, master_df) :
                 master_df[k].date # NaT /\ row.date # NaT}}

\* classify_match_reason(row, master_df) ends in a TypeError
ClassifyRaises(row, master_df) ==
    /\ row.final_status # "Matched"
    /\ row.final_status # "FuzzyMatched"
    /\ \E i \in SameAmount(row, master_df) :
          DateDiffRaises(master_df[i].date, row.date)

\* "Timing difference" test, lines 87-92
TimingDifference(row, master_df) ==
    \E n \in DateDiffs(row, master_df) : n > DATE_TOLERANCE_DAYS

\* "Likely gateway fee" test, lines 98-100
LikelyGatewayFee(row) ==
    /\ row.amount_cent <= SMALL_FEE_THRESHOLD_PENCE
    /\ \E g \in KNOWN_GATEWAYS : Contains(row.ref_norm, g)

Classified(row, mt, rs, va, rc) ==
    [ match_type |-> mt, resolution_status |-> rs,
      variance_amount |-> va, reason_code |-> rc ] @@ row

\* mutant: the labels of the Matched and FuzzyMatched branches exchanged
classify_match_reason_swapped(row, master_df) ==
    IF row.final_status = "Matched"
    THEN Classified(row, "fuzzy_reference", "cleared", NoVariance, None)
    ELSE IF row.final_status = "FuzzyMatched"
    THEN Classified(row, "exact_reference", "cleared", NoVariance, None)
    ELSE IF TimingDifference(row, master_df)
    THEN Classified(row, None, "exception_timing", NoVariance, "timing_difference")
    ELSE IF LikelyGatewayFee(row)
    THEN Classified(row, None, "cleared_with_difference",
                    <<row.amount_cent>>, "likely_processing_fee")
    ELSE Classified(row, None, "exception_unknown", NoVariance, "unknown")

\* mutant: a likely gateway fee counted as cleared
classify_match_reason_fee_cleared(row, master_df) ==
    IF row.final_status = "Matched"
    THEN Classified(row, "exact_reference", "cleared", NoVariance, None)
    ELSE IF row.final_status = "FuzzyMatched"
    THEN Classified(row, "fuzzy_reference", "cleared", NoVariance, None)
    ELSE IF TimingDifference(row, master_df)
    THEN Classified(row, None, "exception_timing", NoVariance, "timing_difference")
    ELSE IF LikelyGatewayFee(row)
    THEN Classified(row, None, "cleared",
                    <<row.amount_cent>>, "likely_processing_fee")
    ELSE Classified(row, None, "exception_unknown", NoVariance, "unknown")

classify_match_reason(row, master_df) ==
    IF row.final_status = "Matched"
    THEN Classified(row, "exact_reference", "cleared", NoVariance, None)
    ELSE IF row.final_status = "FuzzyMatched"
    THEN Classified(row, "fuzzy_reference", "cleared", NoVariance, None)
    ELSE IF TimingDifference(row, master_df)
    THEN Classified(row, None, "exception_timing", NoVariance, "timing_difference")
    ELSE IF LikelyGatewayFee(row)
    THEN Classified(row, None, "cleared_with_difference",
                    <<row.amount_cent>>, "likely_processing_fee")
    ELSE Classified(row, None, "exception_unknown", NoVariance, "unknown")

\* the reason text; the two texts that format the variance carry it
generate_match_reason(row) ==
    IF row.resolution_status = "cleared"
    THEN IF row.match_type = "exact_reference"
         THEN <<"Exact reference match - cleared automatically">>
         ELSE IF row.match_type = "fuzzy_reference"
         THEN <<"Similar reference detected - cleared automatically">>
         ELSE <<"Matched by amount and date - cleared automatically">>
    ELSE IF row.resolution_status = "cleared_with_difference"
    THEN IF row.reason_code = "likely_processing_fee"
         THEN <<"Likely processing fee with no corresponding bank entry",
                row.variance_amount>>
         ELSE <<"Matched across 2 sources; variance detected (gateway fee)",
                row.variance_amount>>
    ELSE IF row.resolution_status = "exception_timing"
    THEN <<"Matching amount found outside date tolerance - timing difference">>
    ELSE IF row.resolution_status = "exception_unknown"
    THEN <<"Unmatched transaction - no reliable match detected">>
    ELSE <<"Manual review required">>

(***************************************************************************)
(* matcher.py: apply_matching                                              *)
(***************************************************************************)
\* df.copy() with the source column (lines 134-136)
Tagged(df, src) ==
    Table([i \in 1..Len(df) |->
             [ source    |-> src,
               date      |-> df[i].date,
               amount    |-> df[i].amount,
               currency  |-> df[i].currency,
               reference |-> df[i].reference ]])

\* mutant: the source column written into the caller's table, no copy made
TaggedInPlace(df, src) == [caller |-> Tagged(df, src), local |-> Tagged(df, src)]

\* df = df.copy(); df["source"] = src (one of lines 134-136): the table of
\* the caller and the table the local name is bound to afterwards
CopyTagged(df, src) == [caller |-> df, local |-> Tagged(df, src)]

\* pd.concat(..., ignore_index=True) (line 138)
Reindexed(all) == Table([i \in 1..Len(all) |-> SetCol(all[i], "index", i - 1)])

Concat(bank, ledger, gateway) ==
    Reindexed(CopyTagged(bank, "bank").local \o CopyTagged(ledger, "ledger").local
                \o CopyTagged(gateway, "gateway").local)

\* master after line 158
StatusStage(bank, ledger, gateway) ==
    FinalStatus(FuzzyStatus(mark_fuzzy(InitialStatus(
        make_match_key(prepare_dataframe(Concat(bank, ledger, gateway)))))))

\* line 161 raises on some row
ClassificationRaises(m) ==
    \E i \in 1..Len(m) : ClassifyRaises(m[i], m)

\* lines 161-162
WithReason(r) == SetCol(r, "match_reason", generate_match_reason(r))

ReasonStage(m) ==
    Table([i \in 1..Len(m) |-> WithReason(classify_match_reason(m[i], m))])

\* what the call gives for master at line 158: an exception, or the table
Outcome(m) ==
    IF ClassificationRaises(m)
    THEN [raised |-> TRUE, master |-> <<>>]
    ELSE [raised |-> FALSE, master |-> ReasonStage(m)]

apply_matching(bank, ledger, gateway) ==
    Outcome(StatusStage(bank, ledger, gateway))

IsMatched(r) == r.final_status = "Matched"

IsFuzzyMatched(r) == r.final_status = "FuzzyMatched"

IsUnmatched(r) == r.final_status = "Unmatched"

(***************************************************************************)
(* excel_writer.py: the status a client reads                              *)
(***************************************************************************)
\* CLIENT_STATUS_MAP.get(x, x)
CLIENT_STATUS_MAP(x) ==
    IF x = "Matched" THEN "Matched"
    ELSE IF x = "FuzzyMatched" THEN "Partially Matched"
    ELSE IF x = "PartialMatched" THEN "Partially Matched"
    ELSE IF x = "Unmatched" THEN "Unmatched"
    ELSE x

(***************************************************************************)
(* utils.py: column names and values of a loaded file                      *)
(***************************************************************************)
\* cells of a loaded file: a date text of day v, a number v (in pence), a
\* text v that is neither, or None / NaN
Day(d) == [kind |-> "day", v |-> d]

Num(n) == [kind |-> "num", v |-> n]

Text(t) == [kind |-> "text", v |-> t]

Missing == [kind |-> "none", v |-> 0]

Range(s) == {s[k] : k \in 1..Len(s)}

\* the canonical column names
colReference == <<"r","e","f","e","r","e","n","c","e">>

colAmount == <<"a","m","o","u","n","t">>

colDate == <<"d","a","t","e">>

colCurrency == <<"c","u","r","r","e","n","c","y">>

\* the dict COLUMN_ALIASES, in its order of iteration
COLUMN_ALIASES ==
    << [ canon   |-> colReference,
         aliases |-> << <<"r","e","f","e","r","e","n","c","e">>, <<"r","e","f">>, <<"t","x","n","_","i","d">>,
                        <<"t","r","a","n","s","a","c","t","i","o","n"," ","i","d">>,
                        <<"t","r","a","n","s","a","c","t","i","o","n","_","i","d">>, <<"i","d">> >> ],
       [ canon   |-> colAmount,
         aliases |-> << <<"a","m","o","u","n","t">>, <<"a","m","t">>, <<"v","a","l","u","e">>,
                        <<"t","o","t","a","l">>, <<"p","a","i","d">> >> ],
       [ canon   |-> colDate,
         aliases |-> << <<"d","a","t","e">>, <<"t","x","n","_","d","a","t","e">>,
                        <<"t","r","a","n","s","a","c","t","i","o","n","_","d","a","t","e">>,
                        <<"p","o","s","t","e","d","_","d","a","t","e">> >> ],
       [ canon   |-> colCurrency,
         aliases |-> << <<"c","u","r","r","e","n","c","y">>, <<"c","c","y">> >> ] >>

\* str.lower() on a text
LowerText(t) == Table([k \in 1..Len(t) |-> Lower(t[k])])

NotControl(ch) == ch \notin {"\n", "\r", "\t"}

RECURSIVE LStrip(_)
LStrip(t) == IF t # <<>> /\ Head(t) = " " THEN LStrip(Tail(t)) ELSE t

RECURSIVE RStrip(_)
RStrip(t) ==
    IF t # <<>> /\ t[Len(t)] = " " THEN RStrip(SubSeq(t, 1, Len(t) - 1)) ELSE t

\* clean_string on a str: None when nothing is left
CleanText(t) == RStrip(LStrip(SelectSeq(t, NotControl)))

\* str(x) of a float given in pence: 500 is 5.0, 499 is 4.99
FloatStr(n) ==
    (IF n < 0 THEN <<"-">> ELSE <<>>) \o NatStr(Abs(n) \div 100) \o <<".">> \o
    (IF Abs(n) % 10 = 0 THEN NatStr((Abs(n) % 100) \div 10)
     ELSE NatStr((Abs(n) % 100) \div 10) \o NatStr(Abs(n) % 10))

\* str(x) of a cell that is not None
CellStr(x) ==
    CASE x.kind = "text" -> x.v
      [] x.kind = "num"  -> FloatStr(x.v)
      [] x.kind = "day"  -> DateStr(x.v)

clean_string(x) ==
    IF x.kind = "none" THEN Missing
    ELSE IF CleanText(CellStr(x)) = <<>> THEN Missing
    ELSE Text(CleanText(CellStr(x)))

\* to_float: the texts and dates of the model are no numbers
to_float(x) == IF x.kind = "num" THEN x ELSE Missing

\* parse_date: the texts of the model are no dates
parse_date(x) ==
    CASE x.kind = "day"  -> x
      [] x.kind = "none" -> Missing
      [] x.kind = "text" -> Missing

\* any(a in low for a in aliases)
AliasHit(low, aliases) ==
    \E k \in 1..Len(aliases) : Contains(low, aliases[k])

\* the loop of lines 62-68 from the k-th entry of COLUMN_ALIASES on
RECURSIVE FirstCanon(_, _)
FirstCanon(low, k) ==
    IF k > Len(COLUMN_ALIASES) THEN low
    ELSE IF AliasHit(low, COLUMN_ALIASES[k].aliases) THEN COLUMN_ALIASES[k].canon
    ELSE FirstCanon(low, k + 1)

\* the dict mapped, as a function on the column names
normalise_column_names(columns) ==
    [c \in Range(columns) |-> FirstCanon(LowerText(c), 1)]

HasColumn(df, c) == c \in Range(df.columns)

\* df.rename(columns=m): a column that m does not name keeps its name
NewName(m, c) == IF c \in DOMAIN m THEN m[c] ELSE c

RenamedRow(r, m, cols) ==
    [d \in {NewName(m, c) : c \in cols} |->
        r[CHOOSE c \in cols : NewName(m, c) = d]]

rename(df, m) ==
    [ columns |-> Table([k \in 1..Len(df.columns) |-> NewName(m, df.columns[k])]),
      rows    |-> Table([i \in 1..Len(df.rows) |->
                           RenamedRow(df.rows[i], m, Range(df.columns))]) ]

\* lines 84-85
cleaned_cols(df) == [c \in Range(df.columns) |-> LowerText(CleanText(c))]

\* lines 84-89: the file with its columns cleaned and then resolved
AliasRenamed(df) ==
    rename(rename(df, cleaned_cols(df)),
           normalise_column_names(rename(df, cleaned_cols(df)).columns))

\* lines 94-100 on one cell of column col
NormalisedCell(col, x) ==
    IF col = colDate THEN parse_date(x)
    ELSE IF col = colAmount THEN to_float(x)
    ELSE clean_string(x)

ValuesNormalised(df) ==
    [ columns |-> df.columns,
      rows    |-> Table([i \in 1..Len(df.rows) |->
                           [c \in Range(df.columns) |->
                               NormalisedCell(c, df.rows[i][c])]]) ]

\* df.empty: no rows or no columns
IsEmpty(df) == Len(df.rows) = 0 \/ Len(df.columns) = 0

\* the column names logged at line 91 (none when line 81 raised)
ResolvedColumns(df) == IF IsEmpty(df) THEN <<>> ELSE AliasRenamed(df).columns

\* normalise_dataframe ends in a ValueError (lines 81, 104, 107)
NormaliseRaises(df) ==
    \/ IsEmpty(df)
    \/ ~HasColumn(AliasRenamed(df), colAmount)
    \/ ~HasColumn(AliasRenamed(df), colDate)

\* the table normalise_dataframe returns when it does not raise
normalise_dataframe(df) == ValuesNormalised(AliasRenamed(df))

(***************************************************************************)
(* matcher.py on tables whose columns may be absent                        *)
(***************************************************************************)
\* a currency code as the atom FX_RATES is keyed by
CurrencyCode(x) ==
    IF x.kind # "text" THEN "nan"
    ELSE IF x.v = <<"U","S","D">> THEN "USD"
    ELSE IF x.v = <<"E","U","R">> THEN "EUR"
    ELSE IF x.v = <<"G","B","P">> THEN "GBP"
    ELSE "other"

\* one row of the feed df inside pd.concat (line 138) of the tables h: a
\* column the feed lacks is NaN there, which to_datetime coerces to NaT,
\* to_numeric to NaN, FX_RATES.get to the rate 1.0 and normalise_reference
\* to ""; a currency column no feed has is filled with GBP (line 42)
ConcatRow(h, df, r) ==
    [ date      |-> IF HasColumn(df, colDate) /\ r[colDate].kind = "day"
                    THEN r[colDate].v ELSE NaT,
      amount    |-> IF HasColumn(df, colAmount) /\ r[colAmount].kind = "num"
                    THEN <<r[colAmount].v>> ELSE <<>>,
      currency  |-> IF HasColumn(df, colCurrency) THEN CurrencyCode(r[colCurrency])
                    ELSE IF \E f \in 1..3 : HasColumn(h[f], colCurrency) THEN "nan"
                    ELSE "GBP",
      reference |-> IF HasColumn(df, colReference)
                       /\ r[colReference].kind # "none"
                    THEN CellStr(r[colReference]) ELSE <<>> ]

ConcatRows(h, f) ==
    Table([i \in 1..Len(h[f].rows) |-> ConcatRow(h, h[f], h[f].rows[i])])

\* make_match_key reads df["date"]: a KeyError when no feed has the column
\* (prepare_dataframe adds amount, currency and reference, never date)
DateKeyError(h) == \A f \in 1..3 : ~HasColumn(h[f], colDate)

\* apply_matching on three tables as a front-end hands them over
apply_matching_tables(h) ==
    IF DateKeyError(h)
    THEN [raised |-> TRUE, master |-> <<>>]
    ELSE apply_matching(ConcatRows(h, 1), ConcatRows(h, 2), ConcatRows(h, 3))

(***************************************************************************)
(* The state machine                                                       *)
(***************************************************************************)
PayPalRef == <<"P","a","y","P","a","l">>

Inv1Ref == <<"I","N","V","-","1">>

inv1Ref == <<"i","n","v","1">>

\* raw rows whose dates and references vary: GBP, the amount 5.00 (the fee
\* ceiling), dates unparseable, and 2 and 3 days apart
ClassRows ==
    [ date : {0, 1, 3, 6}, amount : {<<500>>},
      currency : {"GBP"}, reference : {PayPalRef, Inv1Ref} ]

\* raw rows whose amounts, currencies and spellings vary: 5.01 (above the
\* ceiling), -3.01 USD (-2.3779 GBP), an unparseable amount, and another
\* spelling of the reference INV-1
NormRows ==
    { [date |-> 1, amount |-> <<501>>,  currency |-> "GBP", reference |-> PayPalRef],
      [date |-> 1, amount |-> <<-301>>, currency |-> "USD", reference |-> Inv1Ref],
      [date |-> 1, amount |-> <<>>,     currency |-> "GBP", reference |-> Inv1Ref],
      [date |-> 1, amount |-> <<500>>,  currency |-> "GBP", reference |-> inv1Ref] }

RawRows == ClassRows \cup NormRows

Tables(n) == UNION {[1..k -> RawRows] : k \in 0..n}

Init ==
    /\ bank_df \in Tables(MaxRows)
    /\ ledger_df \in Tables(MaxRows - Len(bank_df))
    /\ gateway_df \in Tables(MaxRows - Len(bank_df) - Len(ledger_df))
    /\ Len(bank_df) + Len(ledger_df) + Len(gateway_df) >= 1
    /\ pc = "idle"
    /\ master = <<>>
    /\ rec = <<>>
    /\ fuzzy = <<>>
    /\ unmatched = <<>>
    /\ frontend = "engine"
    /\ files = <<>>
    /\ resolved = <<>>
    /\ handed = <<>>

\* one call of apply_matching(bank_df, ledger_df, gateway_df)
ApplyMatching ==
    /\ pc = "idle"
    /\ frontend = "engine"
    /\ \E res \in {apply_matching(bank_df, ledger_df, gateway_df)} :
          IF res.raised
          THEN /\ pc' = "raised"
               /\ UNCHANGED <<master, rec, fuzzy, unmatched>>
          ELSE /\ pc' = "returned"
               /\ master' = res.master
               /\ rec' = SelectSeq(res.master, IsMatched)
               /\ fuzzy' = SelectSeq(res.master, IsFuzzyMatched)
               /\ unmatched' = SelectSeq(res.master, IsUnmatched)
    /\ bank_df' = CopyTagged(bank_df, "bank").caller
    /\ ledger_df' = CopyTagged(ledger_df, "ledger").caller
    /\ gateway_df' = CopyTagged(gateway_df, "gateway").caller
    /\ UNCHANGED <<frontend, files, resolved, handed>>

Next == ApplyMatching

Spec == Init /\ [][Next]_vars

(***************************************************************************)
(* The front-ends: app.py (run_cli, run_streamlit), api.py (reconcile) and *)
(* loader.py (infer_and_load, smart_load_uploaded)                         *)
(***************************************************************************)
\* rows per loaded file
MaxFileRows == 1

\* the headers of the files of the model
Headers ==
    { << <<"d","a","t","e">>, <<"a","m","o","u","n","t">>, <<"r","e","f","e","r","e","n","c","e">> >>,
      << <<"t","x","n","_","d","a","t","e">>, <<"a","m","t">>, <<"r","e","f">> >>,
      << <<"p","o","s","t","e","d","_","d","a","t","e">>, <<"v","a","l","u","e">>, <<"t","x","n","_","i","d">>, <<"c","c","y">> >>,
      << <<"t","r","a","n","s","a","c","t","i","o","n","_","d","a","t","e">>, <<"t","o","t","a","l">>,
         <<"t","r","a","n","s","a","c","t","i","o","n","_","i","d">>, <<"c","u","r","r","e","n","c","y">> >>,
      << <<"D","a","t","e">>, <<"A","m","o","u","n","t"," ">>, <<"i","d">> >>,
      << <<"d","a","t","e">>, <<"r","e","f","e","r","e","n","c","e">> >>,
      << <<"a","m","o","u","n","t">>, <<"r","e","f","e","r","e","n","c","e">> >>,
      << <<"d","a","t","e">>, <<"p","a","i","d">> >>,
      << <<"d","a","t","e">>, <<"a","m","o","u","n","t">> >> }

\* what the cells of a column hold, by the word its header ends with
SampleCell(c) ==
    IF Contains(LowerText(c), <<"d","a","t","e">>) THEN Day(1)
    ELSE IF c \in { <<"c","u","r","r","e","n","c","y">>, <<"c","c","y">> } THEN Text(<<"G","B","P">>)
    ELSE IF c \in { <<"r","e","f","e","r","e","n","c","e">>, <<"r","e","f">>, <<"t","x","n","_","i","d">>, <<"t","r","a","n","s","a","c","t","i","o","n","_","i","d">>, <<"i","d">> }
    THEN Text(Inv1Ref)
    ELSE Num(500)

SampleRow(cols) == [c \in Range(cols) |-> SampleCell(c)]

Files ==
    { [columns |-> cols, rows |-> [i \in 1..n |-> SampleRow(cols)]] :
        cols \in Headers, n \in 0..MaxFileRows }

InitFrontEnd ==
    /\ frontend \in {"cli", "api", "ui"}
    /\ files \in [1..3 -> Files]
    /\ \E f \in 1..3 : Len(files[f].rows) > 0
    /\ resolved = <<>>
    /\ handed = <<>>
    /\ pc = "idle"
    /\ bank_df = <<>>
    /\ ledger_df = <<>>
    /\ gateway_df = <<>>
    /\ master = <<>>
    /\ rec = <<>>
    /\ fuzzy = <<>>
    /\ unmatched = <<>>

\* the call of apply_matching on the tables h, and what the front-end keeps
Handover(h) ==
    /\ handed' = h
    /\ \E res \in {apply_matching_tables(h)} :
          IF res.raised
          THEN /\ pc' = "raised"
               /\ UNCHANGED <<master, rec, fuzzy, unmatched>>
          ELSE /\ pc' = "returned"
               /\ master' = res.master
               /\ rec' = SelectSeq(res.master, IsMatched)
               /\ fuzzy' = SelectSeq(res.master, IsFuzzyMatched)
               /\ unmatched' = SelectSeq(res.master, IsUnmatched)

\* the run ends before apply_matching is called
Rejected ==
    /\ pc' = "rejected"
    /\ UNCHANGED <<handed, master, rec, fuzzy, unmatched>>

\* infer_and_load keeps a role at None when normalise_dataframe raised
SomeRoleMissing == \E f \in 1..3 : NormaliseRaises(files[f])

Loaded == [f \in 1..3 |-> normalise_dataframe(files[f])]

\* run_cli: a role left at None ends the run with SystemExit
RunCli ==
    /\ pc = "idle"
    /\ frontend = "cli"
    /\ resolved' = [f \in 1..3 |-> ResolvedColumns(files[f])]
    /\ IF SomeRoleMissing THEN Rejected ELSE Handover(Loaded)
    /\ UNCHANGED <<bank_df, ledger_df, gateway_df, frontend, files>>

\* reconcile: the files are read and handed over as they are; an exception
\* becomes the JSON answer with status 500
RunApi ==
    /\ pc = "idle"
    /\ frontend = "api"
    /\ Handover(files)
    /\ UNCHANGED <<bank_df, ledger_df, gateway_df, frontend, files, resolved>>

\* the dict literal of line 156: a later key replaces an equal earlier one
rename_map(date_sel, amount_sel, ref_sel) ==
    [c \in {date_sel, amount_sel, ref_sel} |->
        IF c = ref_sel THEN colReference
        ELSE IF c = amount_sel THEN colAmount
        ELSE colDate]

\* the columns the reference selectbox of line 133 can be left on: the
\* user confirms the reference column, and picks one when there is none
RefChoices(df) ==
    IF HasColumn(df, colReference) THEN {colReference} ELSE Range(df.columns)

\* run_streamlit with its "Run reconciliation" button pressed: a role without
\* a loaded file stops the run (line 142); the date and amount selectboxes
\* are confirmed on the columns of these names
RunUi ==
    /\ pc = "idle"
    /\ frontend = "ui"
    /\ resolved' = [f \in 1..3 |-> ResolvedColumns(files[f])]
    /\ IF SomeRoleMissing THEN Rejected
       ELSE \E sel \in [1..3 -> {colReference, colAmount, colDate, colCurrency}] :
               /\ \A f \in 1..3 : sel[f] \in RefChoices(Loaded[f])
               /\ Handover([f \in 1..3 |->
                              rename(Loaded[f], rename_map(colDate, colAmount, sel[f]))])
    /\ UNCHANGED <<bank_df, ledger_df, gateway_df, frontend, files>>

NextFrontEnd == RunCli \/ RunApi \/ RunUi

SpecFrontEnd == InitFrontEnd /\ [][NextFrontEnd]_vars

(***************************************************************************)
(* Direct calls on feeds whose references are close to one another         *)
(***************************************************************************)
\* total number of rows over the three feeds
MaxFuzzyRows == 3

\* the ratio of paypal and paypal1 is 92.3, of paypal1 and paypal12 93.3,
\* of paypal and paypal12 85.7
FuzzyRefs == { <<"P","a","y","P","a","l">>, <<"P","a","y","P","a","l","-","1">>, <<"P","a","y","P","a","l","-","1","2">> }

FuzzyRawRows ==
    [ date : {1, 2}, amount : {<<500>>}, currency : {"GBP"}, reference : FuzzyRefs ]
    \cup { [date |-> 1, amount |-> <<501>>, currency |-> "GBP", reference |-> <<"P","a","y","P","a","l","-","1">>] }

FuzzyTables(n) == UNION {[1..k -> FuzzyRawRows] : k \in 0..n}

InitFuzzy ==
    /\ bank_df \in FuzzyTables(MaxFuzzyRows)
    /\ ledger_df \in FuzzyTables(MaxFuzzyRows - Len(bank_df))
    /\ gateway_df \in FuzzyTables(MaxFuzzyRows - Len(bank_df) - Len(ledger_df))
    /\ Len(bank_df) + Len(ledger_df) + Len(gateway_df) >= 1
    /\ pc = "idle"
    /\ master = <<>>
    /\ rec = <<>>
    /\ fuzzy = <<>>
    /\ unmatched = <<>>
    /\ frontend = "engine"
    /\ files = <<>>
    /\ resolved = <<>>
    /\ handed = <<>>

SpecFuzzy == InitFuzzy /\ [][Next]_vars

(***************************************************************************)
(* Vocabulary of the properties                                            *)
(***************************************************************************)
\* number of rows handed to apply_matching
InputRows == Len(bank_df) + Len(ledger_df) + Len(gateway_df)

\* the input row behind index label i - 1 of the concatenation
InputRow(i) ==
    IF i <= Len(bank_df) THEN bank_df[i]
    ELSE IF i <= Len(bank_df) + Len(ledger_df) THEN ledger_df[i - Len(bank_df)]
    ELSE gateway_df[i - Len(bank_df) - Len(ledger_df)]

InputSource(i) ==
    IF i <= Len(bank_df) THEN "bank"
    ELSE IF i <= Len(bank_df) + Len(ledger_df) THEN "ledger"
    ELSE "gateway"

\* the group of row i of table m: the rows sharing its match_key
Group(m, i) == {j \in 1..Len(m) : m[j].match_key = m[i].match_key}

GroupSources(m, i) == {m[j].source : j \in Group(m, i)}

\* the index labels of a view
Labels(view) == {view[k].index : k \in 1..Len(view)}

Resolutions ==
    {"cleared", "cleared_with_difference", "exception_timing", "exception_unknown"}

\* the small-fee heuristic, read off the columns of a row
SmallFee(r) ==
    /\ r.amount_cent <= SMALL_FEE_THRESHOLD_PENCE
    /\ \E g \in KNOWN_GATEWAYS : Contains(r.ref_norm, g)

\* some transaction of another source has the amount of row i and a date
\* more than the tolerance away from the date of row i
FarCounterpart(m, i) ==
    \E j \in 1..Len(m) :
        /\ m[j].source # m[i].source
        /\ m[j].amount_cent = m[i].amount_cent
        /\ m[j].date # NaT /\ m[i].date # NaT
        /\ Abs(m[j].date - m[i].date) > DATE_TOLERANCE_DAYS

\* the views partition the rows of the input, each row once
Partition ==
    /\ Len(master) = InputRows
    /\ \A i \in 1..Len(master) :
          /\ master[i].index = i - 1
          /\ master[i].source = InputSource(i)
          /\ master[i].reference = InputRow(i).reference
          /\ master[i].currency = InputRow(i).currency
    /\ Labels(rec) \cap Labels(fuzzy) = {}
    /\ Labels(rec) \cap Labels(unmatched) = {}
    /\ Labels(fuzzy) \cap Labels(unmatched) = {}
    /\ Cardinality(Labels(rec)) = Len(rec)
    /\ Cardinality(Labels(fuzzy)) = Len(fuzzy)
    /\ Cardinality(Labels(unmatched)) = Len(unmatched)
    /\ Len(master) = Len(rec) + Len(fuzzy) + Len(unmatched)

(***************************************************************************)
(* C1: for any three input tables apply_matching returns every input row   *)
(* exactly once in the 'all' view, rows with an unparseable date or amount *)
(* included, and the matched, partial and unmatched views are pairwise     *)
(* disjoint with len(all) = len(matched) + len(partial) + len(unmatched).  *)
(***************************************************************************)
C1_EveryRowOnce == pc # "idle" => (pc = "returned" /\ Partition)

\* what does hold: every call that returns gives such a partition
C1_PartitionWhenReturned == pc = "returned" => Partition

(***************************************************************************)
(* C2: in every output a row is Matched only if (a) its group has the      *)
(* three sources, or (b) its group has one source, its amount is at most   *)
(* the small-fee ceiling and its normalized reference names a gateway.     *)
(***************************************************************************)
C2_MatchedOnlyIf ==
    pc = "returned" =>
        \A i \in 1..Len(master) :
            CLIENT_STATUS_MAP(master[i].final_status) = "Matched" =>
                \/ GroupSources(master, i) = AllSources
                \/ /\ Cardinality(GroupSources(master, i)) = 1
                   /\ SmallFee(master[i])

C2_Witness ==
    /\ pc = "returned"
    /\ \E i \in 1..Len(master) : master[i].final_status = "Matched"

(***************************************************************************)
(* C3: whenever the rows sharing one match_key come from all three         *)
(* sources, every row of the group is Matched, exact_reference, cleared,   *)
(* with no variance.                                                       *)
(***************************************************************************)
C3_ThreeSourcesMatched ==
    pc = "returned" =>
        \A i \in 1..Len(master) :
            GroupSources(master, i) = AllSources =>
                /\ CLIENT_STATUS_MAP(master[i].final_status) = "Matched"
                /\ master[i].match_type = "exact_reference"
                /\ master[i].resolution_status = "cleared"
                /\ master[i].variance_amount = NoVariance
                /\ \E k \in 1..Len(rec) : rec[k].index = master[i].index

C3_Witness ==
    /\ pc = "returned"
    /\ \E i \in 1..Len(master) : \E j \in Group(master, i) :
          /\ GroupSources(master, i) = AllSources
          /\ master[i].reference # master[j].reference

(***************************************************************************)
(* C4: whenever a group has exactly two sources its rows are Partially     *)
(* Matched with resolution cleared; with equal amounts match_type is       *)
(* exact_reference and variance null, with differing amounts variance is   *)
(* the absolute difference and match_type reference_match_with_variance.   *)
(***************************************************************************)
C4_TwoSourcesPartial ==
    pc = "returned" =>
        \A i \in 1..Len(master) :
            Cardinality(GroupSources(master, i)) = 2 =>
                /\ CLIENT_STATUS_MAP(master[i].final_status) = "Partially Matched"
                /\ master[i].resolution_status = "cleared"
                /\ \A j \in Group(master, i) :
                      IF master[j].amount_cent = master[i].amount_cent
                      THEN /\ master[i].match_type = "exact_reference"
                           /\ master[i].variance_amount = NoVariance
                      ELSE /\ master[i].match_type = "reference_match_with_variance"
                           /\ master[i].variance_amount =
                                <<Abs(master[j].amount_cent - master[i].amount_cent)>>

(***************************************************************************)
(* C5: a transaction alone in its group (one source) whose amount_minor is *)
(* within the small-fee ceiling and whose ref_norm names a gateway is      *)
(* Matched, cleared_with_difference, variance amount_minor/100,            *)
(* match_type gateway_fee.                                                 *)
(***************************************************************************)
C5_GatewayFeeMatched ==
    pc = "returned" =>
        \A i \in 1..Len(master) :
            (Cardinality(GroupSources(master, i)) = 1 /\ SmallFee(master[i])) =>
                /\ CLIENT_STATUS_MAP(master[i].final_status) = "Matched"
                /\ master[i].resolution_status = "cleared_with_difference"
                /\ master[i].variance_amount = <<master[i].amount_cent>>
                /\ master[i].match_type = "gateway_fee"

(***************************************************************************)
(* C6: a single-source transaction that does not satisfy the small-fee     *)
(* heuristic is Unmatched, with resolution exception_timing when some      *)
(* transaction of another source has its amount_minor and a date more than *)
(* 2 days away from its own, and exception_unknown otherwise.              *)
(***************************************************************************)
C6_Expected(m, i) ==
    IF FarCounterpart(m, i) THEN "exception_timing" ELSE "exception_unknown"

C6_SingleSourceUnmatched ==
    pc # "idle" =>
        \A i \in 1..InputRows :
            (/\ Cardinality(GroupSources(StatusStage(bank_df, ledger_df, gateway_df), i)) = 1
             /\ ~SmallFee(StatusStage(bank_df, ledger_df, gateway_df)[i])) =>
                /\ pc = "returned"
                /\ CLIENT_STATUS_MAP(master[i].final_status) = "Unmatched"
                /\ master[i].resolution_status = C6_Expected(master, i)

\* what does hold: the same, of every call that returns
C6_WhenReturned ==
    pc = "returned" =>
        \A i \in 1..Len(master) :
            (Cardinality(GroupSources(master, i)) = 1 /\ ~SmallFee(master[i])) =>
                /\ CLIENT_STATUS_MAP(master[i].final_status) = "Unmatched"
                /\ master[i].resolution_status = C6_Expected(master, i)

(***************************************************************************)
(* C8: for every transaction produced by normalization, whatever the signs *)
(* of the input amounts, amount >= 0 and amount_base >= 0 (hence           *)
(* amount_minor >= 0), and amount_minor = round(amount_base * 100).        *)
(***************************************************************************)
C8_AmountsNonNegative ==
    pc = "returned" =>
        \A i \in 1..Len(master) :
            /\ master[i].amount >= 0
            /\ master[i].amount_gbp >= 0
            /\ master[i].amount_cent >= 0
            /\ 2 * Abs(100 * master[i].amount_cent - master[i].amount_gbp) <= 100

(***************************************************************************)
(* C9: classification is total: for every input that passed ingestion      *)
(* (rows with a null date or a zero amount included) apply_matching        *)
(* finishes without raising and every output row carries one of the four   *)
(* resolutions, so its reason is never 'Manual review required'.           *)
(***************************************************************************)
C9_ClassificationTotal ==
    pc # "idle" =>
        /\ pc = "returned"
        /\ \A i \in 1..Len(master) :
              /\ master[i].resolution_status \in Resolutions
              /\ master[i].match_reason # <<"Manual review required">>

\* what does hold: every row of a call that returns has a resolution
C9_ResolvedWhenReturned ==
    pc = "returned" =>
        \A i \in 1..Len(master) :
            /\ master[i].resolution_status \in Resolutions
            /\ master[i].match_reason # <<"Manual review required">>

(***************************************************************************)
(* C10: all transactions that share a match_key receive the same           *)
(* classification: status, match_type, resolution, variance and reason,    *)
(* whatever other transactions are present in the run.                     *)
(***************************************************************************)
C10_GroupSharesClassification ==
    pc = "returned" =>
        \A i \in 1..Len(master) : \A j \in Group(master, i) :
            /\ master[j].final_status = master[i].final_status
            /\ master[j].match_type = master[i].match_type
            /\ master[j].resolution_status = master[i].resolution_status
            /\ master[j].variance_amount = master[i].variance_amount
            /\ master[j].match_reason = master[i].match_reason

FeedOf(src) ==
    IF src = "bank" THEN bank_df ELSE IF src = "ledger" THEN ledger_df ELSE gateway_df

\* the mean signed amount of the feed is negative
FeedMeanNegative(src) ==
    /\ Len(FeedOf(src)) > 0
    /\ SumSeq([k \in 1..Len(FeedOf(src)) |-> to_numeric(FeedOf(src)[k].amount)]) < 0

C14_PolarityPerFeed ==
    pc = "returned" =>
        \A i \in 1..Len(master) :
            IF FeedMeanNegative(master[i].source)
            THEN /\ master[i].polarity = "debit"
                 /\ master[i].amount = Abs(to_numeric(InputRow(i).amount))
            ELSE /\ master[i].polarity = "credit"
                 /\ master[i].amount = to_numeric(InputRow(i).amount)

\* what does hold: one polarity for the whole run, decided by the mean of
\* all rows of the three feeds together
C14_PolarityPerRun ==
    pc = "returned" =>
        \A i \in 1..Len(master) :
            master[i].polarity =
                (IF SumSeq([k \in 1..InputRows |-> to_numeric(InputRow(k).amount)]) < 0
                 THEN "debit" ELSE "credit")

(***************************************************************************)
(* C15: any two transactions with identical ref_norm, identical            *)
(* amount_minor and identical date (null dates counting as identical) get  *)
(* the same match_key and so belong to the same group at classification    *)
(* time, also after the fuzzy pass has run.                                *)
(***************************************************************************)
SameTriple(m, i, j) ==
    /\ m[i].ref_norm = m[j].ref_norm
    /\ m[i].amount_cent = m[j].amount_cent
    /\ m[i].date = m[j].date

\* in the table m, rows with the same triple have the same key
KeysAgree(m) ==
    \A i \in 1..Len(m) : \A j \in 1..Len(m) :
        SameTriple(m, i, j) => (m[i].match_key = m[j].match_key /\ j \in Group(m, i))

\* of the table handed to classification, whether classification then
\* returns or raises
C15_SameTripleSameKey ==
    /\ pc = "returned" => KeysAgree(master)
    /\ pc = "raised" => KeysAgree(StatusStage(bank_df, ledger_df, gateway_df))

C15_Witness ==
    /\ pc = "returned"
    /\ \E i \in 1..Len(master) : \E j \in 1..Len(master) :
          /\ SameTriple(master, i, j)
          /\ master[i].source # master[j].source
          /\ master[i].reference # master[j].reference
          /\ master[i].fuzzy_group = master[j].fuzzy_group

(***************************************************************************)
(* Vocabulary of the properties about the fuzzy pass                       *)
(***************************************************************************)
\* the similarity of the normalized references of rows i and j of m meets
\* the threshold
Similar(m, i, j) ==
    FuzzRatioAtLeast(m[i].ref_norm, m[j].ref_norm, FUZZY_THRESHOLD)

\* row i of m is the root of its cluster
IsRoot(m, i) == m[i].fuzzy_group = m[i].index

\* row j was not yet in a cluster when row i was scanned
FreeAt(m, i, j) == m[j].fuzzy_group >= m[i].index

(***************************************************************************)
(* C16: mark_fuzzy assigns every transaction to exactly one cluster,       *)
(* scanning in original order: the first still-unassigned transaction i    *)
(* becomes a root with cluster id i, and a later transaction j still       *)
(* unassigned when i is scanned joins i's cluster if and only if their     *)
(* similarity meets the threshold; so every member is similar to its root  *)
(* and a root is the lowest-index member of its cluster.                   *)
(***************************************************************************)
C16_RootAnchoredClusters ==
    pc = "returned" =>
        \A j \in 1..Len(master) :
            /\ master[j].fuzzy_group \in {master[i].index : i \in 1..j}
            /\ IsRoot(master, master[j].fuzzy_group + 1)
            /\ Similar(master, master[j].fuzzy_group + 1, j)
            /\ \A i \in 1..(j - 1) :
                  (IsRoot(master, i) /\ FreeAt(master, i, j)) =>
                      (master[j].fuzzy_group = master[i].index <=> Similar(master, i, j))

C16_Witness ==
    /\ pc = "returned"
    /\ \E i \in 1..Len(master) : \E j \in 1..Len(master) : \E k \in 1..Len(master) :
          /\ i < j /\ j < k
          /\ IsRoot(master, i) /\ IsRoot(master, j)
          /\ master[k].fuzzy_group = master[i].index
          /\ master[k].ref_norm # master[i].ref_norm
          /\ Similar(master, j, k)

(***************************************************************************)
(* C17: fuzzy clustering is root-anchored, not transitive: for             *)
(* transactions A, B, C in that order where B was folded into the cluster  *)
(* of the root A and B alone would cluster with C, C is in A's cluster     *)
(* only if the similarity of A and C meets the threshold too.              *)
(***************************************************************************)
C17_NotTransitive ==
    pc = "returned" =>
        \A a \in 1..Len(master) : \A b \in 1..Len(master) : \A c \in 1..Len(master) :
            (/\ a < b /\ b < c
             /\ IsRoot(master, a)
             /\ master[b].fuzzy_group = master[a].index
             /\ Similar(master, b, c)
             /\ master[c].fuzzy_group = master[a].index) =>
                Similar(master, a, c)

\* A with B, B similar to C, and C left out of the cluster of A
C17_Witness ==
    /\ pc = "returned"
    /\ \E a \in 1..Len(master) : \E b \in 1..Len(master) : \E c \in 1..Len(master) :
          /\ a < b /\ b < c
          /\ IsRoot(master, a)
          /\ master[b].fuzzy_group = master[a].index
          /\ Similar(master, b, c)
          /\ ~Similar(master, a, c)
          /\ master[c].fuzzy_group # master[a].index

(***************************************************************************)
(* C18: two transactions placed in the same fuzzy cluster with the same    *)
(* amount_minor, but different reference spellings or different dates, end *)
(* up under one shared match_key (cluster id combined with amount_minor)   *)
(* and are classified together as one group.                               *)
(***************************************************************************)
C18_ClusterSharesKey ==
    pc = "returned" =>
        \A i \in 1..Len(master) : \A j \in 1..Len(master) :
            (/\ master[i].fuzzy_group = master[j].fuzzy_group
             /\ master[i].amount_cent = master[j].amount_cent
             /\ \/ master[i].reference # master[j].reference
                \/ master[i].date # master[j].date) =>
                /\ master[i].match_key = master[j].match_key
                /\ j \in Group(master, i)

\* what does hold: every row keeps the key make_match_key gave it
C18_KeysStayExact ==
    pc = "returned" =>
        \A i \in 1..Len(master) :
            master[i].match_key =
                IntStr(master[i].amount_cent) \o <<"_">> \o master[i].ref_norm
                    \o <<"_">> \o DateStr(master[i].date)

(***************************************************************************)
(* C19: the decision rules are applied in the stated priority order: a     *)
(* single-source transaction that satisfies the small-fee heuristic keeps  *)
(* resolution cleared_with_difference even when another source has a       *)
(* transaction with the identical amount_minor dated more than 2 days      *)
(* away; the timing refinement only replaces exception_unknown.            *)
(***************************************************************************)
C19_FeeBeforeTiming ==
    pc = "returned" =>
        \A i \in 1..Len(master) :
            /\ (/\ Cardinality(GroupSources(master, i)) = 1
                /\ SmallFee(master[i])
                /\ FarCounterpart(master, i)) =>
                   master[i].resolution_status = "cleared_with_difference"
            /\ master[i].resolution_status = "exception_timing" =>
                   ~(Cardinality(GroupSources(master, i)) = 1 /\ SmallFee(master[i]))

\* what does hold: the timing test comes first
C19_TimingBeforeFee ==
    pc = "returned" =>
        \A i \in 1..Len(master) :
            (master[i].final_status = "Unmatched" /\ FarCounterpart(master, i)) =>
                master[i].resolution_status = "exception_timing"

(***************************************************************************)
(* C20: every group handed to classification (the rows sharing one         *)
(* match_key) contains between 1 and 3 transactions, with at most one      *)
(* transaction per source, for any input tables including ones with        *)
(* repeated rows inside one feed.                                          *)
(***************************************************************************)
C20_GroupShape ==
    pc = "returned" =>
        \A i \in 1..Len(master) :
            /\ Cardinality(Group(master, i)) \in 1..3
            /\ \A j \in Group(master, i) : \A k \in Group(master, i) :
                  master[j].source = master[k].source => j = k

(***************************************************************************)
(* C21: after apply_matching no row has final_status FuzzyMatched, for any *)
(* input: mark_fuzzy never sets fuzzy_status and never replaces a          *)
(* match_key built by make_match_key, so the third returned view (partial  *)
(* / FuzzyMatched) is always empty and every row is Matched or Unmatched.  *)
(***************************************************************************)
C21_NoFuzzyMatched ==
    pc = "returned" =>
        /\ fuzzy = <<>>
        /\ Len(master) = Len(rec) + Len(unmatched)
        /\ \A i \in 1..Len(master) :
              /\ master[i].final_status \in {"Matched", "Unmatched"}
              /\ master[i].fuzzy_status # "FuzzyMatched"
              /\ master[i].match_key = MatchKeyOf(master[i])

\* two rows of different sources in one cluster, with different normalized
\* references and the same amount
C21_Witness ==
    /\ pc = "returned"
    /\ \E i \in 1..Len(master) : \E j \in 1..Len(master) :
          /\ master[i].source # master[j].source
          /\ master[i].fuzzy_group = master[j].fuzzy_group
          /\ master[i].ref_norm # master[j].ref_norm
          /\ master[i].amount_cent = master[j].amount_cent
          /\ master[i].date = master[j].date

(***************************************************************************)
(* C22: in every output of apply_matching all rows sharing a match_key     *)
(* have the same final_status, and a Matched group contains at least one   *)
(* row from each of bank, ledger and gateway.                              *)
(***************************************************************************)
C22_GroupStatus ==
    pc = "returned" =>
        \A i \in 1..Len(master) :
            /\ \A j \in Group(master, i) :
                  master[j].final_status = master[i].final_status
            /\ master[i].final_status = "Matched" =>
                  \A src \in AllSources :
                      \E j \in Group(master, i) : master[j].source = src

\* the three rows of a run are one Matched group, one row per source
C22_Witness ==
    /\ pc = "returned"
    /\ Len(rec) = 3
    /\ rec[1].match_key = rec[2].match_key
    /\ rec[2].match_key = rec[3].match_key
    /\ {rec[k].source : k \in 1..3} = AllSources

(***************************************************************************)
(* C23: in every output row of apply_matching final_status is Matched if   *)
(* and only if resolution_status is cleared; a row with resolution         *)
(* cleared_with_difference, exception_timing or exception_unknown always   *)
(* has final_status Unmatched, and variance_amount is non-null only when   *)
(* resolution_status is cleared_with_difference.                           *)
(***************************************************************************)
C23_StatusAndResolution ==
    pc = "returned" =>
        \A i \in 1..Len(master) :
            /\ master[i].final_status = "Matched"
                  <=> master[i].resolution_status = "cleared"
            /\ master[i].resolution_status
                  \in {"cleared_with_difference", "exception_timing", "exception_unknown"}
                  => master[i].final_status = "Unmatched"
            /\ master[i].variance_amount # NoVariance
                  => master[i].resolution_status = "cleared_with_difference"

\* a likely fee with its variance next to a timing exception
C23_Witness ==
    /\ pc = "returned"
    /\ \E i \in 1..Len(master) : \E j \in 1..Len(master) :
          /\ master[i].resolution_status = "cleared_with_difference"
          /\ master[i].variance_amount # NoVariance
          /\ master[i].final_status = "Unmatched"
          /\ master[j].resolution_status = "exception_timing"

(***************************************************************************)
(* Vocabulary of the properties about the front-ends                       *)
(***************************************************************************)
\* the alias lists as the specification of the ingestion boundary gives them
ListedAliases ==
    << [ canon   |-> colReference,
         aliases |-> { <<"r","e","f","e","r","e","n","c","e">>, <<"r","e","f">>, <<"t","x","n","_","i","d">>, <<"t","r","a","n","s","a","c","t","i","o","n","_","i","d">>, <<"i","d">> } ],
       [ canon   |-> colAmount,
         aliases |-> { <<"a","m","o","u","n","t">>, <<"a","m","t">>, <<"v","a","l","u","e">>, <<"t","o","t","a","l">>, <<"p","a","i","d">> } ],
       [ canon   |-> colDate,
         aliases |-> { <<"d","a","t","e">>, <<"t","x","n","_","d","a","t","e">>, <<"t","r","a","n","s","a","c","t","i","o","n","_","d","a","t","e">>, <<"p","o","s","t","e","d","_","d","a","t","e">> } ],
       [ canon   |-> colCurrency,
         aliases |-> { <<"c","u","r","r","e","n","c","y">>, <<"c","c","y">> } ] >>

IsListed(low) == \E k \in 1..4 : low \in ListedAliases[k].aliases

\* the canonical field of a listed alias
ListedCanon(low) ==
    ListedAliases[CHOOSE k \in 1..4 : low \in ListedAliases[k].aliases].canon

\* the feed has a column that the alias lists resolve to the field canon
HasField(df, canon) ==
    \E c \in Range(df.columns) :
        /\ IsListed(LowerText(CleanText(c)))
        /\ ListedCanon(LowerText(CleanText(c))) = canon

\* a feed that ingestion has to reject
BadFeed(df) ==
    \/ Len(df.rows) = 0
    \/ ~HasField(df, colAmount)
    \/ ~HasField(df, colDate)

(***************************************************************************)
(* C11: in every front-end (CLI, HTTP endpoint, UI), when one of the three *)
(* feeds is empty or has no amount column or no date column after alias    *)
(* resolution, the run ends with an error and apply_matching is not        *)
(* executed; matching never proceeds with a substituted amount or date     *)
(* column.                                                                 *)
(***************************************************************************)
C11_BadFeedRejected ==
    pc # "idle" =>
        /\ (\E f \in 1..3 : BadFeed(files[f])) =>
              (pc = "rejected" /\ handed = <<>>)
        /\ handed # <<>> =>
              \A f \in 1..3 : /\ HasColumn(handed[f], colAmount)
                              /\ HasColumn(handed[f], colDate)

\* what does hold: the CLI and the UI, which load through
\* normalise_dataframe, end the run when a feed is one to reject
C11_CliUiReject ==
    (pc # "idle" /\ frontend \in {"cli", "ui"}) =>
        ((\E f \in 1..3 : BadFeed(files[f])) =>
            (pc = "rejected" /\ handed = <<>>))

(***************************************************************************)
(* C12: column-name resolution maps every input column whose lower-cased   *)
(* name is one of the listed aliases to its canonical field (amount, amt,  *)
(* value, total, paid to amount; date, txn_date, transaction_date,         *)
(* posted_date to date; reference, ref, txn_id, transaction_id, id to      *)
(* reference; currency, ccy to currency).                                  *)
(***************************************************************************)
C12_ListedAliasesResolve ==
    (pc # "idle" /\ frontend \in {"cli", "ui"}) =>
        \A f \in 1..3 :
            Len(files[f].rows) > 0 =>
                \A k \in 1..Len(files[f].columns) :
                    IsListed(LowerText(files[f].columns[k])) =>
                        resolved[f][k] = ListedCanon(LowerText(files[f].columns[k]))

\* what does hold: the same of every listed alias but paid
C12_AllButPaid ==
    (pc # "idle" /\ frontend \in {"cli", "ui"}) =>
        \A f \in 1..3 :
            Len(files[f].rows) > 0 =>
                \A k \in 1..Len(files[f].columns) :
                    (/\ IsListed(LowerText(files[f].columns[k]))
                     /\ files[f].columns[k] # <<"p","a","i","d">>) =>
                        resolved[f][k] = ListedCanon(LowerText(files[f].columns[k]))

====
